---- MODULE Spec2Model ----
(***************************************************************************)
(* zwom: conversion of a ZWOM workout description to a ZWO document.       *)
(*                                                                         *)
(* The model follows one conversion (serialize.convert_zwom): the source   *)
(* is parsed to raw blocks, ZWOMValidator scans them one block per step,   *)
(* Workout.to_zwo renders the validated blocks and writes the destination. *)
(*                                                                         *)
(* Values are records: a scalar is [t, n] (t the Python type, n its        *)
(* number), a Range is [t |-> "range", left, right], None is the value of  *)
(* an absent key (dict.get).  A block is [tag, params, messages]: params   *)
(* maps every parameter Tag to its value or None and holds under "order"   *)
(* the keys it has in the dict's iteration order (the order the source     *)
(* wrote them), messages is the block's Tag.MESSAGES list (<<>> for None). *)
(***************************************************************************)
EXTENDS Integers, Sequences, FiniteSets, TLC

\* ------------------------------------------------------------------ bounds
MaxLen == 4
MaxRepeat == 2
MaxFtp == 2
MaxWatts == 2
MaxRampLen == 3
MaxNodes == 4

\* ------------------------------------------------------------------ values
None == [t |-> "none", n |-> 0]
Integer(i) == [t |-> "int", n |-> i]
Percentage(v) == [t |-> "pct", n |-> v]
Duration(s) == [t |-> "dur", n |-> s]
\* the source text numbered i; text 0 is the empty text, which visit_string
\* makes of a string of blanks (dedent)
Str(i) == [t |-> "str", n |-> i]
Range(l, r) == [t |-> "range", left |-> l, right |-> r]

\* PowerZone members, each holding its Percentage value
PowerZone == [Z1 |-> 50, Z2 |-> 65, Z3 |-> 81, SS |-> 90,
              Z4 |-> 95, Z5 |-> 109, Z6 |-> 125, Z7 |-> 150]
Zone(name) == [t |-> "zone", n |-> PowerZone[name]]

isinstance(v, type) == v.t = type

\* Tag: the block kinds the validator dispatches on, and the parameter keys
BlockTags == {"META", "FREE", "SEGMENT", "RAMP", "WARMUP", "COOLDOWN",
              "INTERVALS", "START_REPEAT", "END_REPEAT"}
ParamTags == {"NAME", "AUTHOR", "DESCRIPTION", "FTP", "TAGS",
              "DURATION", "POWER", "CADENCE", "REPEAT"}

\* The value of a StrEnum member made by auto(): its name in lower case
TagValue == [NAME |-> "name", AUTHOR |-> "author", DESCRIPTION |-> "description",
             FTP |-> "ftp", TAGS |-> "tags", DURATION |-> "duration",
             POWER |-> "power", CADENCE |-> "cadence", REPEAT |-> "repeat"]

NoParams == [k \in ParamTags \cup {"order"} |-> IF k = "order" THEN <<>> ELSE None]
keys(params) == {k \in ParamTags : params[k] # None}

\* the place of key in a dict's iteration order, 0 if it is not there
RECURSIVE index(_, _, _)
index(order, key, i) ==
    IF i > Len(order) THEN 0
    ELSE IF order[i] = key THEN i
    ELSE index(order, key, i + 1)

Message(ts, text) == [timestamp |-> ts, message |-> text]

Block(tag, params, messages) ==
    [tag |-> tag, params |-> params, messages |-> messages]

\* ------------------------------------------------------------------ errors
\* An exception: its class, its message, and for a missing-key error the
\* block kind and the absent keys the message names.
Exception(kind, msg, block_tag, missing) ==
    [kind |-> kind, msg |-> msg, block_tag |-> block_tag, missing |-> missing]
NoError == Exception("none", "", "", {})
ZWOMValidationError(msg) == Exception("ZWOMValidationError", msg, "", {})
ParseError == Exception("ParseError", "grammar mismatch", "", {})
IndexError == Exception("IndexError", "list index out of range", "", {})
ValueError == Exception("ValueError", "Type narrowing", "", {})
TypeError == Exception("TypeError", "node contents must be a string", "", {})
ZeroDivisionError == Exception("ZeroDivisionError", "division by zero", "", {})
UnboundLocalError == Exception("UnboundLocalError", "block_element", "", {})
KeyError(key) == Exception("KeyError", key, "", {})
VisitationError == Exception("VisitationError", "KeyError", "", {})

\* --------------------------------------------------------------- validator
\* _check_keys: NoError when no required key is missing, else the error
\* naming the block kind and the missing keys.
_check_keys(required, check_tags, block_tag) ==
    LET missing == required \ check_tags
    IN  IF missing # {}
        THEN Exception("ZWOMValidationError", "block missing required keys",
                       block_tag, missing)
        ELSE NoError

\* Python truth value of self._ftp (None and 0 are false)
truthy(ftp) == ftp # None /\ ftp.n # 0

\* (mutant) visit_meta_block that forgets to reject an FTP of 0
visit_meta_block_zero_ftp(params, block_tag, self_ftp) ==
    IF {"NAME", "AUTHOR", "DESCRIPTION"} \ keys(params) # {}
    THEN [err |-> _check_keys({"NAME", "AUTHOR", "DESCRIPTION"}, keys(params), block_tag),
          ftp |-> self_ftp]
    ELSE IF params["FTP"] = None THEN [err |-> NoError, ftp |-> self_ftp]
    ELSE IF isinstance(params["FTP"], "int") THEN [err |-> NoError, ftp |-> params["FTP"]]
    ELSE [err |-> ZWOMValidationError("FTP must be a positive integer"), ftp |-> self_ftp]

\* visit_meta_block: the error it raises (NoError when it returns) and the
\* value it leaves in self._ftp
MetaVisited(err, ftp) == [err |-> err, ftp |-> ftp]

visit_meta_block(params, block_tag, self_ftp) ==
    LET keyerr == _check_keys({"NAME", "AUTHOR", "DESCRIPTION"}, keys(params), block_tag)
        ftp == params["FTP"]
    IN  IF keyerr # NoError THEN MetaVisited(keyerr, self_ftp)
        ELSE IF ftp # None
             THEN IF isinstance(ftp, "int")
                  THEN IF ftp.n = 0
                       THEN MetaVisited(ZWOMValidationError("FTP must be > 0"), self_ftp)
                       ELSE MetaVisited(NoError, ftp)
                  ELSE MetaVisited(ZWOMValidationError("FTP must be a positive integer"),
                                   self_ftp)
             ELSE MetaVisited(NoError, self_ftp)

\* (mutant) visit_segment_block that asks a SEGMENT for DURATION only
visit_segment_block_duration_only(params, block_tag) ==
    _check_keys({"DURATION"}, keys(params), block_tag)

visit_segment_block(params, block_tag) ==
    LET required_tags == IF block_tag = "SEGMENT" THEN {"DURATION", "POWER"}
                                                  ELSE {"DURATION"}
    IN  _check_keys(required_tags, keys(params), block_tag)

visit_ramp_block(params, block_tag) ==
    _check_keys({"DURATION", "POWER"}, keys(params), block_tag)

visit_interval_block(params, block_tag) ==
    _check_keys({"REPEAT", "DURATION", "POWER"}, keys(params), block_tag)

\* The repeat visitors return the error raised and the values they leave in
\* self._in_repeat and self._n_repeats.
Visited(err, in_repeat, n_repeats) ==
    [err |-> err, in_repeat |-> in_repeat, n_repeats |-> n_repeats]

\* (mutant) visit_start_repeat_block without the nested-repeat check
visit_start_repeat_block_nested(params, block_tag, in_repeat, n_repeats) ==
    IF _check_keys({"REPEAT"}, keys(params), block_tag) # NoError
    THEN Visited(_check_keys({"REPEAT"}, keys(params), block_tag), in_repeat, n_repeats)
    ELSE IF ~isinstance(params["REPEAT"], "int")
    THEN Visited(ZWOMValidationError("START_REPEAT must have an integer REPEAT value."),
                 in_repeat, n_repeats)
    ELSE IF params["REPEAT"].n = 0
    THEN Visited(ZWOMValidationError("REPEAT must be > 0."), in_repeat, n_repeats)
    ELSE Visited(NoError, TRUE, params["REPEAT"].n)

\* (mutant) visit_start_repeat_block without the REPEAT == 0 check
visit_start_repeat_block_zero(params, block_tag, in_repeat, n_repeats) ==
    IF in_repeat
    THEN Visited(ZWOMValidationError("Nested block chunk repetition is not supported."),
                 in_repeat, n_repeats)
    ELSE IF _check_keys({"REPEAT"}, keys(params), block_tag) # NoError
    THEN Visited(_check_keys({"REPEAT"}, keys(params), block_tag), in_repeat, n_repeats)
    ELSE IF ~isinstance(params["REPEAT"], "int")
    THEN Visited(ZWOMValidationError("START_REPEAT must have an integer REPEAT value."),
                 in_repeat, n_repeats)
    ELSE Visited(NoError, TRUE, params["REPEAT"].n)

visit_start_repeat_block(params, block_tag, in_repeat, n_repeats) ==
    LET keyerr == _check_keys({"REPEAT"}, keys(params), block_tag)
        n == params["REPEAT"]
    IN  IF in_repeat
        THEN Visited(ZWOMValidationError("Nested block chunk repetition is not supported."),
                     in_repeat, n_repeats)
        ELSE IF keyerr # NoError THEN Visited(keyerr, in_repeat, n_repeats)
        ELSE IF ~isinstance(n, "int")
        THEN Visited(ZWOMValidationError("START_REPEAT must have an integer REPEAT value."),
                     in_repeat, n_repeats)
        ELSE IF n.n = 0
        THEN Visited(ZWOMValidationError("REPEAT must be > 0."), in_repeat, n_repeats)
        ELSE Visited(NoError, TRUE, n.n)

\* (mutant) visit_end_repeat_block without the check for an open region
visit_end_repeat_block_unchecked(params, block_tag, in_repeat, n_repeats) ==
    Visited(NoError, FALSE, n_repeats)

visit_end_repeat_block(params, block_tag, in_repeat, n_repeats) ==
    IF ~in_repeat
    THEN Visited(ZWOMValidationError("Missing opening START_REPEAT block."),
                 in_repeat, n_repeats)
    ELSE Visited(NoError, FALSE, n_repeats)

FtpRequired ==
    ZWOMValidationError("An FTP must be specified in the META block to use absolute watts.")

\* (mutant) visit_power that lets a power of 0 through
visit_power_zero_ok(power_spec, ftp) ==
    IF isinstance(power_spec, "int")
    THEN IF ~truthy(ftp) THEN FtpRequired ELSE NoError
    ELSE IF isinstance(power_spec, "range")
    THEN IF ~truthy(ftp) /\ (isinstance(power_spec.left, "int")
                              \/ isinstance(power_spec.right, "int"))
         THEN FtpRequired
         ELSE NoError
    ELSE NoError

\* (mutant) visit_power that asks for an FTP only when the power is a Range
visit_power_no_ftp_check(power_spec, ftp) ==
    IF isinstance(power_spec, "int")
    THEN IF power_spec.n = 0 THEN ZWOMValidationError("Power must be > 0") ELSE NoError
    ELSE IF isinstance(power_spec, "range")
    THEN IF ~truthy(ftp) /\ (isinstance(power_spec.left, "int")
                              \/ isinstance(power_spec.right, "int"))
         THEN FtpRequired
         ELSE NoError
    ELSE NoError

\* (mutant) visit_power that asks for an FTP for a scalar power only, never
\* for the endpoints of a Range
visit_power_scalar_only(power_spec, ftp) ==
    IF isinstance(power_spec, "int")
    THEN IF power_spec.n = 0 THEN ZWOMValidationError("Power must be > 0")
         ELSE IF ~truthy(ftp) THEN FtpRequired
         ELSE NoError
    ELSE NoError

visit_power(power_spec, ftp) ==
    IF isinstance(power_spec, "int")
    THEN IF power_spec.n = 0 THEN ZWOMValidationError("Power must be > 0")
         ELSE IF ~truthy(ftp) THEN FtpRequired
         ELSE NoError
    ELSE IF isinstance(power_spec, "range")
    THEN IF ~truthy(ftp) /\ (isinstance(power_spec.left, "int")
                              \/ isinstance(power_spec.right, "int"))
         THEN FtpRequired
         ELSE NoError
    ELSE NoError

\* (mutant) visit_cadence that lets a Range through for every block kind
visit_cadence_range_anywhere(cadence_spec, block_tag) ==
    IF block_tag = "INTERVALS" /\ ~isinstance(cadence_spec, "range")
    THEN ZWOMValidationError("Cadence spec for Interval blocks must be a range.")
    ELSE NoError

visit_cadence(cadence_spec, block_tag) ==
    IF isinstance(cadence_spec, "range") /\ block_tag # "INTERVALS"
    THEN ZWOMValidationError("Cadence ranges are only valid for Interval blocks.")
    ELSE IF block_tag = "INTERVALS" /\ ~isinstance(cadence_spec, "range")
    THEN ZWOMValidationError("Cadence spec for Interval blocks must be a range.")
    ELSE NoError

\* validate_scanned, the match on block_tag
dispatch_block(block, in_repeat, n_repeats) ==
    LET block_tag == block.tag
        params == block.params
    IN  CASE block_tag \in {"FREE", "SEGMENT"} ->
               Visited(visit_segment_block(params, block_tag), in_repeat, n_repeats)
          [] block_tag \in {"RAMP", "WARMUP", "COOLDOWN"} ->
               Visited(visit_ramp_block(params, block_tag), in_repeat, n_repeats)
          [] block_tag = "INTERVALS" ->
               Visited(visit_interval_block(params, block_tag), in_repeat, n_repeats)
          [] block_tag = "START_REPEAT" ->
               visit_start_repeat_block(params, block_tag, in_repeat, n_repeats)
          [] block_tag = "END_REPEAT" ->
               visit_end_repeat_block(params, block_tag, in_repeat, n_repeats)
          [] OTHER ->
               Visited(ZWOMValidationError("Unknown workout tag"), in_repeat, n_repeats)

\* validate_scanned, the loop over params.items(): the first error raised
\* validate_scanned, one pass of the loop over params.items()
visit_param(param, val, block_tag, ftp) ==
    CASE param = "POWER" -> visit_power(val, ftp)
      [] param = "CADENCE" -> visit_cadence(val, block_tag)
      [] OTHER -> NoError

\* validate_scanned, the loop over params.items() from place i on: the first
\* error raised
RECURSIVE visit_params(_, _, _, _)
visit_params(params, block_tag, ftp, i) ==
    IF i > Len(params["order"]) THEN NoError
    ELSE IF visit_param(params["order"][i], params[params["order"][i]], block_tag, ftp)
            # NoError
    THEN visit_param(params["order"][i], params[params["order"][i]], block_tag, ftp)
    ELSE visit_params(params, block_tag, ftp, i + 1)

dispatch_params(block, ftp) == visit_params(block.params, block.tag, ftp, 1)

\* (mutant) a list * n that makes one copy too few
RECURSIVE Times_one_short(_, _)
Times_one_short(s, n) == IF n <= 1 THEN <<>> ELSE s \o Times_one_short(s, n - 1)

\* Python's list * n
RECURSIVE Times(_, _)
Times(s, n) == IF n <= 0 THEN <<>> ELSE s \o Times(s, n - 1)

\* (mutant) a first-block check that takes any first block for META
first_block_error_any_first(blocks) ==
    IF blocks = <<>> THEN IndexError ELSE NoError

\* (mutant) a first-block check that looks for META anywhere in the sequence
first_block_error_anywhere(blocks) ==
    IF blocks = <<>> THEN IndexError
    ELSE IF \A i \in 1..Len(blocks) : blocks[i].tag # "META"
    THEN ZWOMValidationError("ZWOM file must begin with a META block")
    ELSE NoError

\* validate_scanned, the check of the first block
first_block_error(blocks) ==
    IF blocks = <<>> THEN IndexError
    ELSE IF blocks[1].tag # "META"
    THEN ZWOMValidationError("ZWOM file must begin with a META block")
    ELSE NoError

\* validate_scanned, the end of a pass of the loop: where the block goes.
\* The new values of validated_blocks, repeat_blocks and self._n_repeats.
Collected(validated, repeat, n_repeats) ==
    [validated |-> validated, repeat |-> repeat, n_repeats |-> n_repeats]

\* (mutant) collect that emits the blocks of a region as it buffers them
collect_emits_early(block, in_repeat, n_repeats, validated, repeat) ==
    IF in_repeat
    THEN IF block.tag # "START_REPEAT"
         THEN Collected(Append(validated, block), Append(repeat, block), n_repeats)
         ELSE Collected(validated, repeat, n_repeats)
    ELSE IF repeat # <<>>
         THEN Collected(validated \o Times(repeat, n_repeats), <<>>, -1)
         ELSE IF block.tag # "END_REPEAT"
              THEN Collected(Append(validated, block), repeat, n_repeats)
              ELSE Collected(validated, repeat, n_repeats)

\* (mutant) collect that keeps the START_REPEAT block in the repeat body
collect_keeps_start(block, in_repeat, n_repeats, validated, repeat) ==
    IF in_repeat
    THEN Collected(validated, Append(repeat, block), n_repeats)
    ELSE IF repeat # <<>>
         THEN Collected(validated \o Times(repeat, n_repeats), <<>>, -1)
         ELSE IF block.tag # "END_REPEAT"
              THEN Collected(Append(validated, block), repeat, n_repeats)
              ELSE Collected(validated, repeat, n_repeats)

collect(block, in_repeat, n_repeats, validated, repeat) ==
    IF in_repeat
    THEN IF block.tag # "START_REPEAT"
         THEN Collected(validated, Append(repeat, block), n_repeats)
         ELSE Collected(validated, repeat, n_repeats)
    ELSE IF repeat # <<>>
         THEN Collected(validated \o Times(repeat, n_repeats), <<>>, -1)
         ELSE IF block.tag # "END_REPEAT"
              THEN Collected(Append(validated, block), repeat, n_repeats)
              ELSE Collected(validated, repeat, n_repeats)

\* (mutant) an end of scan that does not look at the repeat state
end_of_scan_unchecked(in_repeat) == NoError

\* validate_scanned, after the loop: the repeat region must be closed
end_of_scan(in_repeat) ==
    IF in_repeat
    THEN ZWOMValidationError("START_REPEAT is missing a matching END_REPEAT.")
    ELSE NoError

\* -------------------------------------------------------------- serializer
STATIC_META_PARAMS == [sportType |-> "bike"]

BLOCK_MAPPING == [COOLDOWN |-> "Cooldown", FREE |-> "FreeRide",
                  INTERVALS |-> "IntervalsT", RAMP |-> "Ramp",
                  SEGMENT |-> "SteadyState", WARMUP |-> "WarmUp"]

\* A rendered string.  f tells how to read it: "int" is the decimal numeral
\* of a; "frac3" is a fraction with three decimals, a its integer part and b
\* its thousandths; "quot" is str(a / b), Python's float quotient; "text" is
\* the source text numbered a; "tagname" is hashtag b of the TAGS text a with
\* its leading # stripped; "repr" is the repr of a dataclass; "lit" is a
\* literal of the program, numbered a.
Text(f, a, b) == [f |-> f, a |-> a, b |-> b]
NoText == Text("", 0, 0)

\* Percentage.__str__: f"{value / 100:0.3f}"
Percentage_str(value) == Text("frac3", value \div 100, (value % 100) * 10)

\* str(v) of a parameter value
str(v) ==
    CASE v.t = "int" -> Text("int", v.n, 0)
      [] v.t = "pct" -> Percentage_str(v.n)
      [] v.t = "zone" -> Percentage_str(v.n)
      [] v.t = "dur" -> Text("int", v.n, 0)
      [] v.t = "str" -> Text("text", v.n, 0)
      [] OTHER -> Text("repr", 0, 0)

\* Python truth value of a parameter value (None, the integer 0 and the
\* empty text are false)
bool(v) == v # None /\ ~(v.t = "int" /\ v.n = 0) /\ ~(v.t = "str" /\ v.n = 0)

\* An element of the minidom tree
Element(name, attrs, children, text) ==
    [name |-> name, attrs |-> attrs, children |-> children, text |-> text]
NoElement == Element("", <<>>, <<>>, NoText)

\* the place of the attribute named attname in attrs from place i on, 0 when
\* the element has no such attribute
RECURSIVE getAttributeNode(_, _, _)
getAttributeNode(attrs, attname, i) ==
    IF i > Len(attrs) THEN 0
    ELSE IF attrs[i][1] = attname THEN i
    ELSE getAttributeNode(attrs, attname, i + 1)

\* a new name goes to the end; a name the element has keeps its place and
\* takes the new value
setAttribute(element, attname, value) ==
    IF getAttributeNode(element.attrs, attname, 1) = 0
    THEN [element EXCEPT !.attrs = Append(@, <<attname, value>>)]
    ELSE [element EXCEPT
              !.attrs[getAttributeNode(element.attrs, attname, 1)] = <<attname, value>>]
appendChild(element, child) ==
    [element EXCEPT !.children = Append(@, child)]

\* What a serializer method returns or raises
Result(err, val) == [err |-> err, val |-> val]

serialize_power(power, ftp) ==
    IF isinstance(power, "int")
    THEN IF ftp = None THEN Result(ValueError, NoText)
         ELSE IF ftp.n = 0 THEN Result(ZeroDivisionError, NoText)
         ELSE Result(NoError, Text("quot", power.n, ftp.n))
    ELSE Result(NoError, str(power))

\* (mutant) _classify_ramp_type that looks at the last position first
_classify_ramp_type_last_first(block_idx, n_blocks) ==
    IF block_idx = n_blocks THEN BLOCK_MAPPING["COOLDOWN"]
    ELSE IF block_idx = 1 THEN BLOCK_MAPPING["WARMUP"]
    ELSE BLOCK_MAPPING["RAMP"]

_classify_ramp_type(block_idx, n_blocks) ==
    IF block_idx = 1 THEN BLOCK_MAPPING["WARMUP"]
    ELSE IF block_idx = n_blocks THEN BLOCK_MAPPING["COOLDOWN"]
    ELSE BLOCK_MAPPING["RAMP"]

\* the attribute a flag of _build_simple_block adds, if it is set
attribute(flag, attname, value) == IF flag THEN <<<<attname, value>>>> ELSE <<>>

_build_simple_block(zwift_key, params, add_duration, add_cadence, add_power, add_flat_road, add_pace, ftp) ==
    LET p == IF add_duration /\ params["DURATION"] = None
             THEN Result(KeyError("DURATION"), NoText)
             ELSE IF add_power /\ params["POWER"] = None
             THEN Result(KeyError("POWER"), NoText)
             ELSE IF add_power /\ params["POWER"].t \in {"int", "pct", "zone"}
             THEN serialize_power(params["POWER"], ftp)
             ELSE Result(IF add_power THEN ValueError ELSE NoError, NoText)
    IN  Result(p.err,
               Element(zwift_key,
                       attribute(add_duration, "Duration", str(params["DURATION"]))
                       \o attribute(add_cadence /\ bool(params["CADENCE"]),
                                    "Cadence", str(params["CADENCE"]))
                       \o attribute(add_power, "Power", p.val)
                       \o attribute(add_flat_road, "FlatRoad", Text("lit", 0, 0))
                       \o attribute(add_pace, "pace", Text("lit", 0, 0)),
                       <<>>, NoText))

serialize_ramp(block_element, params, ftp) ==
    LET power_range == params["POWER"]
        lo == serialize_power(power_range.left, ftp)
        hi == serialize_power(power_range.right, ftp)
    IN  IF power_range = None THEN Result(KeyError("POWER"), NoElement)
        ELSE IF ~isinstance(power_range, "range") THEN Result(ValueError, NoElement)
        ELSE IF isinstance(power_range.left, "dur") \/ isinstance(power_range.right, "dur")
        THEN Result(ValueError, NoElement)
        ELSE IF lo.err # NoError THEN Result(lo.err, NoElement)
        ELSE IF hi.err # NoError THEN Result(hi.err, NoElement)
        ELSE Result(NoError,
                    setAttribute(setAttribute(block_element, "PowerLow", lo.val),
                                 "PowerHigh", hi.val))

serialize_interval(block_element, params, ftp) ==
    LET e1 == setAttribute(block_element, "Repeat", str(params["REPEAT"]))
        duration_range == params["DURATION"]
        e2 == setAttribute(setAttribute(e1, "OnDuration", str(duration_range.left)),
                           "OffDuration", str(duration_range.right))
        power_range == params["POWER"]
        on == serialize_power(power_range.left, ftp)
        off == serialize_power(power_range.right, ftp)
        e3 == setAttribute(setAttribute(e2, "OnPower", on.val), "OffPower", off.val)
        cadence_range == params["CADENCE"]
        e4 == setAttribute(setAttribute(e3, "Cadence", str(cadence_range.left)),
                           "CadenceResting", str(cadence_range.right))
    IN  IF params["REPEAT"] = None THEN Result(KeyError("REPEAT"), NoElement)
        ELSE IF duration_range = None THEN Result(KeyError("DURATION"), NoElement)
        ELSE IF ~isinstance(duration_range, "range") THEN Result(ValueError, NoElement)
        ELSE IF power_range = None THEN Result(KeyError("POWER"), NoElement)
        ELSE IF ~isinstance(power_range, "range") THEN Result(ValueError, NoElement)
        ELSE IF isinstance(power_range.left, "dur") \/ isinstance(power_range.right, "dur")
        THEN Result(ValueError, NoElement)
        ELSE IF on.err # NoError THEN Result(on.err, NoElement)
        ELSE IF off.err # NoError THEN Result(off.err, NoElement)
        ELSE IF ~isinstance(cadence_range, "range") THEN Result(ValueError, NoElement)
        ELSE Result(NoError, e4)

\* (mutant) serialize_messages that renders the first message only
serialize_messages_first_only(root, messages) ==
    IF messages = <<>> THEN root
    ELSE appendChild(root,
             Element("textevent",
                     << <<"timeoffset", str(Head(messages).timestamp)>>,
                        <<"message", Text("text", Head(messages).message, 0)>> >>,
                     <<>>, NoText))

RECURSIVE serialize_messages(_, _)
serialize_messages(root, messages) ==
    IF messages = <<>> THEN root
    ELSE serialize_messages(
             appendChild(root,
                 Element("textevent",
                         << <<"timeoffset", str(Head(messages).timestamp)>>,
                            <<"message", Text("text", Head(messages).message, 0)>> >>,
                         <<>>, NoText)),
             Tail(messages))

\* serialize_workout_blocks, the messages of a block go under its element
with_messages(built, messages) ==
    IF built.err # NoError THEN built
    ELSE Result(NoError, serialize_messages(built.val, messages))

\* serialize_workout_blocks: the element _build_simple_block returned goes
\* to serialize_ramp or serialize_interval, unless it raised
built_then_ramp(built, params, ftp) ==
    IF built.err # NoError THEN Result(built.err, NoElement)
    ELSE serialize_ramp(built.val, params, ftp)
built_then_interval(built, params, ftp) ==
    IF built.err # NoError THEN Result(built.err, NoElement)
    ELSE serialize_interval(built.val, params, ftp)

\* serialize_workout_blocks, one pass of its loop up to appendChild: the
\* element block_element names after it.  block_element is the element the
\* pass before left under that name, NoElement when nothing is bound yet.
serialize_block(block, idx, n_blocks, ftp, block_element) ==
    with_messages(
        CASE block.tag = "FREE" ->
               _build_simple_block(BLOCK_MAPPING[block.tag], block.params,
                                   TRUE, TRUE, FALSE, TRUE, FALSE, ftp)
          [] block.tag = "SEGMENT" ->
               _build_simple_block(BLOCK_MAPPING[block.tag], block.params,
                                   TRUE, TRUE, TRUE, FALSE, TRUE, ftp)
          [] block.tag \in {"RAMP", "WARMUP", "COOLDOWN"} ->
               built_then_ramp(
                   _build_simple_block(_classify_ramp_type(idx, n_blocks), block.params,
                                       TRUE, TRUE, FALSE, FALSE, TRUE, ftp),
                   block.params, ftp)
          [] block.tag = "INTERVALS" ->
               built_then_interval(
                   _build_simple_block(BLOCK_MAPPING[block.tag], block.params,
                                       FALSE, FALSE, FALSE, FALSE, TRUE, ftp),
                   block.params, ftp)
          \* case _: block_element keeps the element of the pass before,
          \* and is unbound in the first pass (no validated block has such
          \* a tag)
          [] OTHER -> IF block_element = NoElement
                      THEN Result(UnboundLocalError, NoElement)
                      ELSE Result(NoError, block_element),
        block.messages)

\* the match statement binds block_element anew for these block kinds
rebinds(block_tag) ==
    block_tag \in {"FREE", "SEGMENT", "RAMP", "WARMUP", "COOLDOWN", "INTERVALS"}

\* the element block_element names after the passes that built the
\* children of the workout element: the last of them
bound(workout) ==
    IF workout = <<>> THEN NoElement ELSE workout[Len(workout)]

\* workout.appendChild(block_element): a new element goes to the end; the
\* element of the pass before is a child already, it is taken out and put
\* back at the end
appended(workout, block_tag, block_element) ==
    IF rebinds(block_tag) THEN Append(workout, block_element)
    ELSE Append(SubSeq(workout, 1, Len(workout) - 1), block_element)

\* The elements of a loop so far and those of the rest of it, or the first
\* error raised
then(first, rest) ==
    IF first.err # NoError THEN Result(first.err, <<>>)
    ELSE IF rest.err # NoError THEN Result(rest.err, <<>>)
    ELSE Result(NoError, first.val \o rest.val)

\* the element a pass of a loop appends
one(r) == Result(r.err, <<r.val>>)

\* the place where the block at idx stands first in blocks
first_copy(blocks, idx) ==
    CHOOSE j \in 1..idx :
        blocks[j] = blocks[idx] /\ \A k \in 1..(j - 1) : blocks[k] # blocks[idx]

\* (mutant) a loop that names every copy of a block by the place of its
\* first copy
RECURSIVE serialize_from_first_copy(_, _, _, _)
serialize_from_first_copy(blocks, idx, ftp, workout) ==
    IF idx > Len(blocks) THEN Result(NoError, workout)
    ELSE IF serialize_block(blocks[idx], first_copy(blocks, idx), Len(blocks), ftp,
                            bound(workout)).err # NoError
    THEN Result(serialize_block(blocks[idx], first_copy(blocks, idx), Len(blocks), ftp,
                                bound(workout)).err, <<>>)
    ELSE serialize_from_first_copy(blocks, idx + 1, ftp,
             appended(workout, blocks[idx].tag,
                      serialize_block(blocks[idx], first_copy(blocks, idx), Len(blocks),
                                      ftp, bound(workout)).val))

\* serialize_workout_blocks, the loop from position idx on, workout being
\* the children the passes before have appended: the children of the
\* workout element after the loop, or the first error raised
RECURSIVE serialize_from(_, _, _, _)
serialize_from(blocks, idx, ftp, workout) ==
    IF idx > Len(blocks) THEN Result(NoError, workout)
    ELSE IF serialize_block(blocks[idx], idx, Len(blocks), ftp, bound(workout)).err # NoError
    THEN Result(serialize_block(blocks[idx], idx, Len(blocks), ftp, bound(workout)).err, <<>>)
    ELSE serialize_from(blocks, idx + 1, ftp,
             appended(workout, blocks[idx].tag,
                      serialize_block(blocks[idx], idx, Len(blocks), ftp,
                                      bound(workout)).val))

\* the element that holds the children a loop has built
parent(name, children) ==
    IF children.err # NoError THEN Result(children.err, NoElement)
    ELSE Result(NoError, Element(name, <<>>, children.val, NoText))

serialize_workout_blocks(blocks, ftp) ==
    parent("workout", serialize_from(blocks, 1, ftp, <<>>))

\* val.split() of a TAGS text: the text numbered n holds n hashtags
RECURSIVE hashtags(_, _)
hashtags(val, k) ==
    IF k > val.n THEN <<>>
    ELSE <<Element("tag", << <<"name", Text("tagname", val.n, k)>> >>, <<>>, NoText)>>
         \o hashtags(val, k + 1)

\* serialize_meta, one pass of its loop
serialize_meta_item(tag, val) ==
    IF tag = "TAGS"
    THEN IF ~isinstance(val, "str") THEN Result(ValueError, NoElement)
         ELSE Result(NoError, Element(TagValue[tag], <<>>, hashtags(val, 1), NoText))
    ELSE IF tag = "DESCRIPTION" /\ ~isinstance(val, "str")
    THEN Result(ValueError, NoElement)
    ELSE IF ~isinstance(val, "str") THEN Result(TypeError, NoElement)
    ELSE Result(NoError, Element(TagValue[tag], <<>>, <<>>, str(val)))

\* serialize_meta, the loop over meta_block.items() from place i on and
\* then the static parameters
RECURSIVE serialize_meta_from(_, _)
serialize_meta_from(meta_block, i) ==
    IF i > Len(meta_block["order"])
    THEN Result(NoError, <<Element("sportType", <<>>, <<>>, Text("lit", 1, 0))>>)
    ELSE IF meta_block["order"][i] = "FTP"
    THEN serialize_meta_from(meta_block, i + 1)
    ELSE then(one(serialize_meta_item(meta_block["order"][i],
                                      meta_block[meta_block["order"][i]])),
              serialize_meta_from(meta_block, i + 1))

serialize_meta(meta_block) == serialize_meta_from(meta_block, 1)

\* Workout.to_zwo up to the write: the workout_file element, or the error.
\* self.blocks[0][Tag.META] needs a first block, and one keyed META.
to_zwo(blocks, ftp) ==
    IF blocks = <<>> THEN Result(IndexError, NoElement)
    ELSE IF blocks[1].tag # "META" THEN Result(KeyError("META"), NoElement)
    ELSE parent("workout_file",
                then(serialize_meta(blocks[1].params),
                     one(serialize_workout_blocks(SubSeq(blocks, 2, Len(blocks)), ftp))))

\* ------------------------------------------------------------------ inputs
\* The documents of the model.  A document is malformed (the grammar does
\* not match it), or it matches the grammar and names a tag or a zone that
\* is no member of Tag or PowerZone (unknown), or it holds a sequence of
\* blocks.
Source(malformed, blocks) ==
    [malformed |-> malformed, unknown |-> FALSE, blocks |-> blocks]
UNKNOWN_NAME == [malformed |-> FALSE, unknown |-> TRUE, blocks |-> <<>>]

\* params[key] = val on a dict, and del params[key] for val = None: a new
\* key goes to the end of the iteration order
With(params, key, val) ==
    [params EXCEPT
        ![key] = val,
        !["order"] = IF val = None THEN SelectSeq(@, LAMBDA k : k # key)
                     ELSE IF index(@, key, 1) = 0 THEN Append(@, key)
                     ELSE @]

META_BLOCK == With(With(With(NoParams, "NAME", Str(1)), "AUTHOR", Str(2)),
                   "DESCRIPTION", Str(3))
MetaFtp(f) == Block("META", With(META_BLOCK, "FTP", Integer(f)), <<>>)
MetaNoFtp == Block("META", META_BLOCK, <<>>)

\* META blocks the validator accepts
GoodMetas == {MetaNoFtp} \cup {MetaFtp(f) : f \in 1..MaxFtp}

\* Other first blocks: META blocks with a bad FTP, a missing key, TAGS, a
\* NAME that is no text, a POWER or a CADENCE, keys in another order, an
\* empty NAME, and blocks that are not META
OddFirsts ==
    { MetaFtp(0),
      Block("META", With(META_BLOCK, "FTP", Duration(30)), <<>>),
      Block("META", With(META_BLOCK, "FTP", Range(Integer(1), Integer(2))), <<>>),
      Block("META", With(META_BLOCK, "DESCRIPTION", None), <<>>),
      Block("META", With(With(META_BLOCK, "NAME", None), "FTP", Integer(0)), <<>>),
      Block("META", With(META_BLOCK, "TAGS", Str(2)), <<>>),
      Block("META", With(META_BLOCK, "TAGS", Integer(2)), <<>>),
      Block("META", With(META_BLOCK, "NAME", Integer(5)), <<>>),
      Block("META", With(META_BLOCK, "DESCRIPTION", Integer(5)), <<>>),
      Block("SEGMENT", With(NoParams, "DURATION", Duration(30)), <<>>),
      Block("FREE", With(With(NoParams, "DURATION", Duration(30)), "FTP", Integer(1)),
            <<>>),
      Block("META", With(META_BLOCK, "POWER", Integer(0)), <<>>),
      Block("META", With(META_BLOCK, "CADENCE", Range(Integer(80), Integer(120))),
            <<>>),
      Block("FREE", With(NoParams, "POWER", Integer(165)), <<>>),
      Block("META", With(With(With(NoParams, "AUTHOR", Str(2)), "NAME", Str(1)),
                         "DESCRIPTION", Str(3)), <<>>),
      Block("META", With(With(With(With(With(NoParams, "TAGS", Str(2)), "FTP", Integer(1)),
                                   "DESCRIPTION", Str(3)), "AUTHOR", Str(2)),
                         "NAME", Str(1)), <<>>),
      Block("META", With(With(With(With(NoParams, "TAGS", Integer(2)), "NAME", Integer(5)),
                              "AUTHOR", Str(2)), "DESCRIPTION", Str(3)), <<>>),
      Block("META", With(With(With(NoParams, "NAME", Str(1)), "DESCRIPTION", Integer(5)),
                         "AUTHOR", Integer(5)), <<>>),
      Block("META", With(META_BLOCK, "NAME", Str(0)), <<>>) }

THIRTY_SEC_DUR == Duration(30)
ON_OFF_DURATION == Range(Duration(30), Duration(60))
POWER_PCT == Percentage(65)
POWER_RANGE_PCT == Range(Percentage(25), Percentage(50))
CADENCE_RANGE == Range(Integer(80), Integer(120))

StartRepeat(n) == Block("START_REPEAT", With(NoParams, "REPEAT", Integer(n)), <<>>)
EndRepeat == Block("END_REPEAT", NoParams, <<>>)

\* The blocks of the longer documents
Pool ==
    { Block("FREE", With(NoParams, "DURATION", THIRTY_SEC_DUR),
            <<Message(Duration(0), 1), Message(Duration(90), 2)>>),
      Block("SEGMENT", With(With(NoParams, "DURATION", THIRTY_SEC_DUR),
                            "POWER", Integer(MaxWatts)), <<>>),
      Block("RAMP", With(With(NoParams, "DURATION", THIRTY_SEC_DUR),
                         "POWER", POWER_RANGE_PCT), <<>>),
      EndRepeat }
    \cup {StartRepeat(n) : n \in 1..MaxRepeat}

\* The parameter values of the one-block documents
DurationVals == {None, THIRTY_SEC_DUR, ON_OFF_DURATION}
PowerVals ==
    {None, POWER_PCT, Zone("Z2"), THIRTY_SEC_DUR, POWER_RANGE_PCT,
     Range(Integer(1), Integer(MaxWatts)), Range(Integer(MaxWatts), Percentage(50)),
     Range(Percentage(50), Integer(0)), Range(Duration(30), Percentage(50))}
    \cup {Integer(w) : w \in 0..MaxWatts}
CadenceVals == {None, Integer(90), CADENCE_RANGE}
RepeatVals == {None, Integer(0), Integer(MaxRepeat), CADENCE_RANGE}
BodyTags == (BlockTags \ {"META"}) \cup {"META", "AUTHOR"}

\* Every block of a body tag over these values, with POWER before CADENCE
\* and with CADENCE before POWER
AllBlocks ==
    { Block(tag,
            IF first
            THEN With(With(With(With(NoParams, "DURATION", d), "CADENCE", c), "POWER", p),
                      "REPEAT", r)
            ELSE With(With(With(With(NoParams, "DURATION", d), "POWER", p), "CADENCE", c),
                      "REPEAT", r),
            <<>>) :
        tag \in BodyTags, d \in DurationVals, p \in PowerVals, c \in CadenceVals,
        r \in RepeatVals, first \in BOOLEAN }

\* Blocks whose CADENCE is a text, the empty text among them
TextCadence ==
    { Block(tag, With(With(With(NoParams, "DURATION", THIRTY_SEC_DUR), "POWER", p),
                      "CADENCE", Str(i)), <<>>) :
        tag \in {"FREE", "SEGMENT"}, p \in {None, POWER_PCT}, i \in {0, 1} }

\* Ramp blocks of every keyword with a rising and a falling power range, and
\* a block that is no ramp
POWER_RANGE_FALLING == Range(Percentage(50), Percentage(25))
RampPool ==
    { Block(tag, With(With(NoParams, "DURATION", THIRTY_SEC_DUR), "POWER", p), <<>>) :
        tag \in {"RAMP", "WARMUP", "COOLDOWN"}, p \in {POWER_RANGE_PCT, POWER_RANGE_FALLING} }
    \cup {Block("FREE", With(NoParams, "DURATION", THIRTY_SEC_DUR), <<>>)}

RECURSIVE SeqsUpTo(_, _)
SeqsUpTo(S, n) ==
    IF n = 0 THEN {<<>>}
    ELSE LET shorter == SeqsUpTo(S, n - 1)
         IN  shorter \cup {Append(s, x) : s \in {t \in shorter : Len(t) = n - 1}, x \in S}

\* The raw block sequences a document of the model holds: the empty workout,
\* a good META and up to MaxLen pool blocks, a good META and one block of any
\* kind (alone or inside a repeat region), an odd first block and at most one
\* block after it, a good META and up to MaxRampLen ramp-pool blocks, a good
\* META and a block whose CADENCE is a text.
Documents ==
    {<<>>}
    \cup {<<m>> \o body : m \in GoodMetas, body \in SeqsUpTo(Pool, MaxLen)}
    \cup {<<m, b>> : m \in {MetaNoFtp, MetaFtp(MaxFtp)}, b \in AllBlocks}
    \cup {<<m, StartRepeat(MaxRepeat), b, EndRepeat>> :
            m \in {MetaNoFtp, MetaFtp(MaxFtp)}, b \in AllBlocks}
    \cup {<<f>> \o rest : f \in OddFirsts, rest \in {<<>>, <<MetaNoFtp>>, <<EndRepeat>>}}
    \cup {<<MetaNoFtp>> \o body : body \in SeqsUpTo(RampPool, MaxRampLen)}
    \cup {<<MetaNoFtp, b>> : b \in TextCadence}

Sources ==
    {Source(TRUE, <<>>), UNKNOWN_NAME} \cup {Source(FALSE, d) : d \in Documents}

\* What the visitor hands to deep_flatten: an item is a list of items or an
\* object of some class; items holds the members of a list and, for a dict,
\* the objects its values hold.
Item(kind, id, items) == [kind |-> kind, id |-> id, items |-> items]
List(items) == Item("list", 0, items)
MESSAGE(id) == Item("Message", id, <<>>)
NODE == Item("Node", 0, <<>>)
PARAM == Item("dict", 1, <<>>)
BLOCK_RESULT == Item("dict", 2, <<List(<<MESSAGE(1)>>)>>)
Objects == {PARAM, BLOCK_RESULT, MESSAGE(1), MESSAGE(2), NODE}

\* The sequences of items that hold k objects and lists in all, and the
\* items that hold j
RECURSIVE ItemSeqs(_), ItemsOf(_)
ItemSeqs(k) ==
    IF k = 0 THEN {<<>>}
    ELSE UNION {{<<item>> \o rest : item \in ItemsOf(j), rest \in ItemSeqs(k - j)} :
                   j \in 1..k}
ItemsOf(j) ==
    IF j = 1 THEN Objects \cup {List(<<>>)}
    ELSE {List(items) : items \in ItemSeqs(j - 1)}

\* The nested lists deep_flatten is run on, and the classes it is asked for
NestedLists == UNION {ItemSeqs(k) : k \in 0..MaxNodes}
KeyTypes == {"dict", "Message"}

\* ------------------------------------------------------------------- state
VARIABLES
    src,                   \* the document convert_zwom reads
    out_file,              \* the text of the destination file
    pc,                    \* where the conversion stands
    error,                 \* the exception that ended it, NoError if none
    raw_blocks,            \* ZWOMValidator.raw_blocks
    _ftp,                  \* ZWOMValidator._ftp
    _in_repeat,            \* ZWOMValidator._in_repeat
    _n_repeats,            \* ZWOMValidator._n_repeats
    scanned,               \* how many blocks of raw_blocks[1:] the loop has taken
    local_validated,       \* validate_scanned's local validated_blocks
    repeat_blocks,         \* validate_scanned's local repeat_blocks
    validated_blocks,      \* ZWOMValidator.validated_blocks, <<>> while unset
    doc,                   \* the document to_zwo has built, <<>> while none
    in_iter,               \* deep_flatten's in_iter
    key_type,              \* deep_flatten's key_type
    iterators,             \* deep_flatten's stack of iterators
    yielded                \* what the generator has yielded so far

vars == <<src, out_file, pc, error, raw_blocks, _ftp, _in_repeat, _n_repeats,
          scanned, local_validated, repeat_blocks, validated_blocks, doc,
          in_iter, key_type, iterators, yielded>>

\* the variables of a run of deep_flatten
flatten_vars == <<in_iter, key_type, iterators, yielded>>

\* no generator of deep_flatten is running
\* isinstance(item, list) and isinstance(item, key_type) of deep_flatten
isinstance_list(item) == item.kind = "list"
isinstance_key(item, type) == item.kind = type

NoFlatten ==
    /\ in_iter = <<>>
    /\ key_type = "dict"
    /\ iterators = <<>>
    /\ yielded = <<>>

\* a slot of the validator that no statement has assigned yet
Unset == -2

\* The destination before the conversion, and a text written to it
OldText == [prolog |-> FALSE, root |-> <<>>]
XmlText(prolog, root) == [prolog |-> prolog, root |-> <<root>>]

Init ==
    /\ src \in Sources
    /\ out_file = OldText
    /\ pc = "parse"
    /\ error = NoError
    /\ raw_blocks = <<>>
    /\ _ftp = None
    /\ _in_repeat = FALSE
    /\ _n_repeats = Unset
    /\ scanned = 0
    /\ local_validated = <<>>
    /\ repeat_blocks = <<>>
    /\ validated_blocks = <<>>
    /\ doc = <<>>
    /\ NoFlatten

\* An exception leaves convert_zwom: nothing else of the conversion runs.
Raise(e) == error' = e /\ pc' = "done"

\* parse_src: the grammar rejects the text, or visit_tag or visit_zone
\* raises on a name that is no member of its enum, or the visitor returns
\* its blocks
Parse ==
    /\ pc = "parse"
    /\ IF src.malformed
       THEN Raise(ParseError) /\ UNCHANGED raw_blocks
       ELSE IF src.unknown
       THEN Raise(VisitationError) /\ UNCHANGED raw_blocks
       ELSE raw_blocks' = src.blocks /\ pc' = "validate" /\ UNCHANGED error
    /\ UNCHANGED <<src, out_file, _ftp, _in_repeat, _n_repeats, scanned,
                   local_validated, repeat_blocks, validated_blocks, doc>>
    /\ UNCHANGED flatten_vars

\* ZWOMValidator.__init__ and validate_scanned up to its loop
ValidateMeta ==
    /\ pc = "validate"
    /\ LET ferr == first_block_error(raw_blocks)
           m == visit_meta_block(raw_blocks[1].params, "META", None)
       IN  IF ferr # NoError
           THEN Raise(ferr) /\ _ftp' = None
                /\ UNCHANGED <<_in_repeat, local_validated>>
           ELSE IF m.err # NoError
           THEN Raise(m.err) /\ _ftp' = m.ftp
                /\ UNCHANGED <<_in_repeat, local_validated>>
           ELSE /\ _ftp' = m.ftp
                /\ local_validated' = <<raw_blocks[1]>>
                /\ _in_repeat' = FALSE
                /\ pc' = "scan"
                /\ UNCHANGED error
    /\ UNCHANGED <<src, out_file, raw_blocks, _n_repeats, scanned, repeat_blocks,
                   validated_blocks, doc>>
    /\ UNCHANGED flatten_vars

\* validate_scanned, one pass of the loop over raw_blocks[1:]
ScanBlock ==
    /\ pc = "scan"
    /\ scanned + 1 < Len(raw_blocks)
    /\ LET block == raw_blocks[scanned + 2]
           v == dispatch_block(block, _in_repeat, _n_repeats)
           perr == dispatch_params(block, _ftp)
           c == collect(block, v.in_repeat, v.n_repeats, local_validated, repeat_blocks)
       IN  /\ _in_repeat' = v.in_repeat
           /\ IF v.err # NoError
              THEN Raise(v.err)
                   /\ UNCHANGED <<_n_repeats, scanned, local_validated, repeat_blocks>>
              ELSE IF perr # NoError
              THEN Raise(perr) /\ _n_repeats' = v.n_repeats
                   /\ UNCHANGED <<scanned, local_validated, repeat_blocks>>
              ELSE /\ scanned' = scanned + 1
                   /\ local_validated' = c.validated
                   /\ repeat_blocks' = c.repeat
                   /\ _n_repeats' = c.n_repeats
                   /\ UNCHANGED <<pc, error>>
    /\ UNCHANGED <<src, out_file, raw_blocks, _ftp, validated_blocks, doc>>
    /\ UNCHANGED flatten_vars

\* validate_scanned after the loop, and the assignment of its result
ScanEnd ==
    /\ pc = "scan"
    /\ scanned + 1 >= Len(raw_blocks)
    /\ IF end_of_scan(_in_repeat) # NoError
       THEN Raise(end_of_scan(_in_repeat)) /\ UNCHANGED validated_blocks
       ELSE validated_blocks' = local_validated /\ pc' = "serialize" /\ UNCHANGED error
    /\ UNCHANGED <<src, out_file, raw_blocks, _ftp, _in_repeat, _n_repeats, scanned,
                   local_validated, repeat_blocks, doc>>
    /\ UNCHANGED flatten_vars

\* (mutant) to_zwo that goes on to the write after an error
Rendered_despite_error(r) ==
    /\ doc' = <<r.val>>
    /\ pc' = "write"
    /\ error' = r.err

\* to_zwo raises, or holds the document it built
Rendered(r) ==
    IF r.err # NoError
    THEN Raise(r.err) /\ UNCHANGED doc
    ELSE doc' = <<r.val>> /\ pc' = "write" /\ UNCHANGED error

\* Workout(val.validated_blocks, val._ftp).to_zwo up to toprettyxml
ToZwo ==
    /\ pc = "serialize"
    /\ Rendered(to_zwo(validated_blocks, _ftp))
    /\ UNCHANGED <<src, out_file, raw_blocks, _ftp, _in_repeat, _n_repeats, scanned,
                   local_validated, repeat_blocks, validated_blocks>>
    /\ UNCHANGED flatten_vars

\* to_zwo: the pretty-printed text without its first line goes to the file
WriteText ==
    /\ pc = "write"
    /\ out_file' = [XmlText(TRUE, doc[1]) EXCEPT !.prolog = FALSE]
    /\ pc' = "done"
    /\ UNCHANGED <<src, error, raw_blocks, _ftp, _in_repeat, _n_repeats, scanned,
                   local_validated, repeat_blocks, validated_blocks, doc>>
    /\ UNCHANGED flatten_vars

Next == Parse \/ ValidateMeta \/ ScanBlock \/ ScanEnd \/ ToZwo \/ WriteText

Spec == Init /\ [][Next]_vars

\* ------------------------------------------------------------ deep_flatten
\* An iterator over a list: the list and the place of the item next() gives
\* (mutant) an iterator that starts at the second item of its list
iter_from_second(list) == [list |-> list, pos |-> 2]

iter(list) == [list |-> list, pos |-> 1]
exhausted(it) == it.pos > Len(it.list)
item_of(it) == it.list[it.pos]
top == iterators[Len(iterators)]

\* next() on the iterator on top of the stack
advanced == [iterators EXCEPT ![Len(iterators)].pos = @ + 1]

\* the variables of the conversion, which a run of deep_flatten leaves alone
convert_vars == <<src, out_file, pc, error, raw_blocks, _ftp, _in_repeat, _n_repeats,
                  scanned, local_validated, repeat_blocks, validated_blocks, doc>>

\* deep_flatten is called on a nested list: the stack holds iter(in_iter)
FlattenInit ==
    /\ in_iter \in NestedLists
    /\ key_type \in KeyTypes
    /\ iterators = <<iter(in_iter)>>
    /\ yielded = <<>>
    /\ src = Source(TRUE, <<>>)
    /\ out_file = OldText
    /\ pc = "parse"
    /\ error = NoError
    /\ raw_blocks = <<>>
    /\ _ftp = None
    /\ _in_repeat = FALSE
    /\ _n_repeats = Unset
    /\ scanned = 0
    /\ local_validated = <<>>
    /\ repeat_blocks = <<>>
    /\ validated_blocks = <<>>
    /\ doc = <<>>

\* the item is a list: its iterator goes on the stack and the for loop breaks
Descend ==
    /\ iterators # <<>>
    /\ ~exhausted(top)
    /\ isinstance_list(item_of(top))
    /\ iterators' = Append(advanced, iter(item_of(top).items))
    /\ UNCHANGED <<in_iter, key_type, yielded>>
    /\ UNCHANGED convert_vars

\* the item is no list and is of the class asked for: it is yielded
Yield ==
    /\ iterators # <<>>
    /\ ~exhausted(top)
    /\ ~isinstance_list(item_of(top))
    /\ isinstance_key(item_of(top), key_type)
    /\ yielded' = Append(yielded, item_of(top))
    /\ iterators' = advanced
    /\ UNCHANGED <<in_iter, key_type>>
    /\ UNCHANGED convert_vars

\* the item is neither: the for loop goes on to the next item
Skip ==
    /\ iterators # <<>>
    /\ ~exhausted(top)
    /\ ~isinstance_list(item_of(top))
    /\ ~isinstance_key(item_of(top), key_type)
    /\ iterators' = advanced
    /\ UNCHANGED <<in_iter, key_type, yielded>>
    /\ UNCHANGED convert_vars

\* the iterator on top is exhausted: the else of the for loop pops it
Pop ==
    /\ iterators # <<>>
    /\ exhausted(top)
    /\ iterators' = SubSeq(iterators, 1, Len(iterators) - 1)
    /\ UNCHANGED <<in_iter, key_type, yielded>>
    /\ UNCHANGED convert_vars

FlattenNext == Descend \/ Yield \/ Skip \/ Pop

\* list(deep_flatten(...)) drives the generator until it returns
FlattenSpec == FlattenInit /\ [][FlattenNext]_vars /\ WF_vars(FlattenNext)

\* ------------------------------------------------------------------ claims
\* the validator returned: ZWOMValidator.validated_blocks is assigned
Validated == validated_blocks # <<>>

\* the loop of validate_scanned raised on a block, FailedBlock
FailedAt ==
    /\ pc = "done"
    /\ error.kind = "ZWOMValidationError"
    /\ local_validated # <<>>
    /\ scanned + 2 <= Len(raw_blocks)
FailedBlock == raw_blocks[scanned + 2]

\* the loop of validate_scanned is about to take NextBlock
AtBlock == pc = "scan" /\ scanned + 1 < Len(raw_blocks)
NextBlock == raw_blocks[scanned + 2]

\* the attribute of an element
HasAttr(e, a) == \E k \in 1..Len(e.attrs) : e.attrs[k][1] = a
Attr(e, a) == e.attrs[CHOOSE k \in 1..Len(e.attrs) : e.attrs[k][1] = a][2]

\* the workout element of the document, and the element of validated block i
WorkoutElement == doc[1].children[Len(doc[1].children)]
BlockElement(i) == WorkoutElement.children[i - 1]

\* n copies of body, one after the other
Copies(body, n) == [i \in 1..(Len(body) * n) |-> body[((i - 1) % Len(body)) + 1]]

\* where the first END_REPEAT of s stands
FirstEnd(s) ==
    CHOOSE i \in 1..Len(s) :
        s[i].tag = "END_REPEAT" /\ \A j \in 1..(i - 1) : s[j].tag # "END_REPEAT"

\* The body blocks with every repeat region replaced by its copies
RECURSIVE Expand(_)
Expand(s) ==
    IF s = <<>> THEN <<>>
    ELSE IF Head(s).tag = "START_REPEAT"
    THEN Copies(SubSeq(Tail(s), 1, FirstEnd(Tail(s)) - 1), Head(s).params["REPEAT"].n)
         \o Expand(SubSeq(Tail(s), FirstEnd(Tail(s)) + 1, Len(Tail(s))))
    ELSE <<Head(s)>> \o Expand(Tail(s))

\* C1: the validated sequence is META followed by the raw body blocks in
\* their order, each START_REPEAT{REPEAT n} b1..bk END_REPEAT region replaced
\* where it stood by n contiguous copies of b1..bk.
C1_RepeatExpansion ==
    Validated => validated_blocks = <<raw_blocks[1]>> \o Expand(Tail(raw_blocks))

\* a validated document with a region of two different blocks repeated at
\* least twice
C1_Witness ==
    /\ Validated
    /\ Len(raw_blocks) >= 5
    /\ raw_blocks[2].tag = "START_REPEAT"
    /\ raw_blocks[2].params["REPEAT"].n >= 2
    /\ raw_blocks[5].tag = "END_REPEAT"
    /\ raw_blocks[3] # raw_blocks[4]
    /\ Len(validated_blocks) >= 5
    /\ validated_blocks[4] = raw_blocks[3]

\* C2: a sequence the validator returns starts with the META block and has
\* no other META block and no START_REPEAT or END_REPEAT block.
C2_ValidatedShape ==
    Validated =>
        /\ validated_blocks[1].tag = "META"
        /\ \A i \in 2..Len(validated_blocks) :
               validated_blocks[i].tag \notin {"META", "START_REPEAT", "END_REPEAT"}

C2_Witness ==
    /\ Validated
    /\ Len(validated_blocks) > 2
    /\ \E i, j \in 2..Len(raw_blocks) :
           raw_blocks[i].tag = "START_REPEAT" /\ raw_blocks[j].tag = "END_REPEAT"

\* C3 (as claimed): a conversion ends with a written document, a grammar
\* error or a validation error, and with nothing else.
C3_ThreeOutcomes ==
    pc = "done" =>
        \/ error = NoError /\ out_file # OldText
        \/ error.kind \in {"ParseError", "ZWOMValidationError"}

IntPowerValues(power) ==
    IF isinstance(power, "int") THEN {power}
    ELSE IF isinstance(power, "range")
    THEN {e \in {power.left, power.right} : isinstance(e, "int")}
    ELSE {}

PowerErrors == {"Power must be > 0", FtpRequired.msg}

\* C4 (as claimed): under a resolved FTP the power check passes every
\* bare-integer POWER value.
C4_IntPowerAlwaysPasses ==
    (FailedAt /\ _ftp # None /\ isinstance(FailedBlock.params["POWER"], "int"))
        => error.msg \notin PowerErrors

\* C4 (amended): with no FTP resolved no document with a bare-integer POWER,
\* or a POWER Range with a bare-integer endpoint, in a body block validates;
\* with an FTP resolved the power check passes every bare-integer POWER
\* greater than 0 and rejects 0; and each bare-integer power the serializer
\* renders (Power of a SEGMENT, the endpoints of a ramp's or an INTERVALS
\* block's Range) is rendered as value/ftp.
C4_IntPowerNeedsFtp ==
    /\ (Validated /\ _ftp = None) =>
           \A i \in 2..Len(raw_blocks) : IntPowerValues(raw_blocks[i].params["POWER"]) = {}
    /\ (FailedAt /\ _ftp # None /\ isinstance(FailedBlock.params["POWER"], "int")
            /\ error.msg \in PowerErrors)
          => FailedBlock.params["POWER"].n = 0
    /\ Validated =>
           \A i \in 2..Len(raw_blocks) : raw_blocks[i].params["POWER"] # Integer(0)
    /\ doc # <<>> =>
           \A i \in 2..Len(validated_blocks) :
               LET b == validated_blocks[i]
                   power == b.params["POWER"]
                   quot(v) == IF isinstance(v, "int") THEN Text("quot", v.n, _ftp.n)
                                                     ELSE str(v)
               IN  /\ (b.tag = "SEGMENT" /\ isinstance(power, "int"))
                          => Attr(BlockElement(i), "Power") = Text("quot", power.n, _ftp.n)
                   /\ (b.tag \in {"RAMP", "WARMUP", "COOLDOWN"})
                          => /\ Attr(BlockElement(i), "PowerLow") = quot(power.left)
                             /\ Attr(BlockElement(i), "PowerHigh") = quot(power.right)
                   /\ (b.tag = "INTERVALS")
                          => /\ Attr(BlockElement(i), "OnPower") = quot(power.left)
                             /\ Attr(BlockElement(i), "OffPower") = quot(power.right)

\* a rendered SEGMENT whose POWER is in watts
C4_Witness ==
    /\ doc # <<>>
    /\ _ftp = Integer(MaxFtp)
    /\ \E i \in 2..Len(validated_blocks) :
           /\ validated_blocks[i].tag = "SEGMENT"
           /\ validated_blocks[i].params["POWER"] = Integer(1)
           /\ Attr(BlockElement(i), "Power") = Text("quot", 1, MaxFtp)

\* C5: a START_REPEAT met while a repeat region is open ends the validation
\* with the nested-repeat error, whatever its parameters.
C5_NestedRepeatFails ==
    [][(AtBlock /\ _in_repeat /\ NextBlock.tag = "START_REPEAT")
          => /\ pc' = "done"
             /\ error' = ZWOMValidationError("Nested block chunk repetition is not supported.")
             /\ validated_blocks' = <<>>]_vars

\* a nested START_REPEAT that has no REPEAT and a POWER of 0 watts
C5_Witness ==
    /\ FailedAt
    /\ error.msg = "Nested block chunk repetition is not supported."
    /\ FailedBlock.params["REPEAT"] = None
    /\ FailedBlock.params["POWER"] = Integer(0)

\* C6: an END_REPEAT met while no repeat region is open ends the validation
\* with the unmatched-END_REPEAT error.
C6_UnmatchedEndFails ==
    [][(AtBlock /\ ~_in_repeat /\ NextBlock.tag = "END_REPEAT")
          => /\ pc' = "done"
             /\ error' = ZWOMValidationError("Missing opening START_REPEAT block.")
             /\ validated_blocks' = <<>>]_vars

\* an END_REPEAT after a region that was opened and closed before it
C6_Witness ==
    /\ FailedAt
    /\ error.msg = "Missing opening START_REPEAT block."
    /\ \E i, j \in 2..(scanned + 1) :
           i < j /\ raw_blocks[i].tag = "START_REPEAT" /\ raw_blocks[j].tag = "END_REPEAT"

\* C7: the validator returns only in state NORMAL; when the input ends while
\* a region is open the validation ends with the missing-END_REPEAT error and
\* no validated sequence.
C7_MissingEndFails ==
    /\ [](Validated => ~_in_repeat)
    /\ [][(pc = "scan" /\ scanned + 1 >= Len(raw_blocks) /\ _in_repeat)
             => /\ pc' = "done"
                /\ error' = ZWOMValidationError(
                                "START_REPEAT is missing a matching END_REPEAT.")
                /\ validated_blocks' = <<>>
                /\ doc' = <<>>]_vars

\* the input ended with two blocks in the body buffer
C7_Witness ==
    /\ pc = "done"
    /\ error.msg = "START_REPEAT is missing a matching END_REPEAT."
    /\ Len(repeat_blocks) >= 2

\* C8: a START_REPEAT met in state NORMAL is accepted only with a REPEAT that
\* is an integer greater than 0, which becomes the repeat count; without
\* REPEAT, or with one that is no integer or is not greater than 0, the
\* validation fails.
C8_StartRepeatCount ==
    [][(AtBlock /\ ~_in_repeat /\ NextBlock.tag = "START_REPEAT")
          => /\ pc' = "scan" =>
                    /\ isinstance(NextBlock.params["REPEAT"], "int")
                    /\ NextBlock.params["REPEAT"].n > 0
                    /\ _in_repeat'
                    /\ _n_repeats' = NextBlock.params["REPEAT"].n
             /\ (\/ NextBlock.params["REPEAT"] = None
                 \/ ~isinstance(NextBlock.params["REPEAT"], "int")
                 \/ NextBlock.params["REPEAT"].n <= 0)
                    => pc' = "done" /\ error'.kind = "ZWOMValidationError"]_vars

\* a START_REPEAT was just accepted with the largest count
C8_Witness ==
    /\ pc = "scan"
    /\ scanned >= 1
    /\ raw_blocks[scanned + 1].tag = "START_REPEAT"
    /\ _in_repeat
    /\ _n_repeats = MaxRepeat

\* C9: a raw sequence whose first block is not META is rejected by the first
\* check, with no block visited.
C9_FirstNotMetaRejected ==
    [][(pc = "validate" /\ raw_blocks # <<>> /\ raw_blocks[1].tag # "META")
          => /\ pc' = "done"
             /\ error' = ZWOMValidationError("ZWOM file must begin with a META block")
             /\ scanned' = 0
             /\ local_validated' = <<>>
             /\ _ftp' = None]_vars

\* a rejected sequence with a META block in second place
C9_Witness ==
    /\ pc = "done"
    /\ error.msg = "ZWOM file must begin with a META block"
    /\ Len(raw_blocks) >= 2
    /\ raw_blocks[2].tag = "META"

\* C10: once META is visited the resolved FTP is META's FTP, a positive
\* integer, or None when META has none; META with an FTP of 0 or one that is
\* no integer fails validation; no pass of the scan changes the resolved FTP.
C10_ResolvedFtp ==
    /\ [](local_validated # <<>> =>
             /\ _ftp = raw_blocks[1].params["FTP"]
             /\ _ftp # None => (isinstance(_ftp, "int") /\ _ftp.n > 0))
    /\ []((/\ pc \notin {"parse", "validate"}
           /\ raw_blocks # <<>>
           /\ raw_blocks[1].tag = "META"
           /\ raw_blocks[1].params["FTP"] # None
           /\ (\/ ~isinstance(raw_blocks[1].params["FTP"], "int")
               \/ raw_blocks[1].params["FTP"].n = 0))
             => (pc = "done" /\ error.kind = "ZWOMValidationError" /\ ~Validated
                 /\ _ftp = None))
    /\ [][(pc \in {"scan", "serialize", "write"}) => (_ftp' = _ftp)]_vars

\* a validated document of several blocks under the largest FTP
C10_Witness ==
    /\ Validated
    /\ _ftp = Integer(MaxFtp)
    /\ raw_blocks[1].params["FTP"] = Integer(MaxFtp)
    /\ scanned >= 2

\* the key schema of the block kinds
RequiredKeys(tag) ==
    CASE tag = "META" -> {"NAME", "AUTHOR", "DESCRIPTION"}
      [] tag = "FREE" -> {"DURATION"}
      [] tag \in {"SEGMENT", "RAMP", "WARMUP", "COOLDOWN"} -> {"DURATION", "POWER"}
      [] tag = "INTERVALS" -> {"REPEAT", "DURATION", "POWER"}
      [] tag = "START_REPEAT" -> {"REPEAT"}
      [] OTHER -> {}

BodyKinds ==
    {"FREE", "SEGMENT", "RAMP", "WARMUP", "COOLDOWN", "INTERVALS", "START_REPEAT",
     "END_REPEAT"}

MissingKeys(block) == RequiredKeys(block.tag) \ keys(block.params)

MissingKeysError(block) ==
    Exception("ZWOMValidationError", "block missing required keys", block.tag,
              MissingKeys(block))

\* META was visited, or the validation ended on it
MetaSeen ==
    /\ pc \notin {"parse", "validate"}
    /\ raw_blocks # <<>>
    /\ raw_blocks[1].tag = "META"

\* C11 (as claimed): a block of a known kind on which the validation ends and
\* which lacks a required key fails with the error naming its kind and every
\* absent key.
C11_MissingKeyAlwaysNamed ==
    (FailedAt /\ FailedBlock.tag \in BodyKinds /\ MissingKeys(FailedBlock) # {})
        => error = MissingKeysError(FailedBlock)

\* C11 (amended): META needs NAME, AUTHOR and DESCRIPTION, FREE needs
\* DURATION, SEGMENT, RAMP, WARMUP and COOLDOWN need DURATION and POWER,
\* INTERVALS needs REPEAT, DURATION and POWER, START_REPEAT needs REPEAT and
\* END_REPEAT nothing. No block lacking a required key passes; the error names
\* the block kind and every absent key, except for a START_REPEAT met while a
\* repeat region is open, which fails with the nested-repeat error before its
\* keys are looked at. A block with all its keys never fails the key check,
\* and a body block of any other kind (a second META too) fails as unknown.
C11_RequiredKeys ==
    /\ [](MetaSeen =>
             IF MissingKeys(raw_blocks[1]) # {}
             THEN /\ pc = "done"
                  /\ error = MissingKeysError(raw_blocks[1])
                  /\ local_validated = <<>>
             ELSE ~(error.msg = "block missing required keys" /\ error.block_tag = "META"))
    /\ [](local_validated # <<>> =>
             \A i \in 2..(scanned + 1) :
                 raw_blocks[i].tag \in BodyKinds /\ MissingKeys(raw_blocks[i]) = {})
    /\ [][AtBlock =>
              IF NextBlock.tag \notin BodyKinds
              THEN pc' = "done" /\ error' = ZWOMValidationError("Unknown workout tag")
              ELSE IF NextBlock.tag = "START_REPEAT" /\ _in_repeat
              THEN /\ pc' = "done"
                   /\ error' = ZWOMValidationError(
                                   "Nested block chunk repetition is not supported.")
              ELSE IF MissingKeys(NextBlock) # {}
              THEN pc' = "done" /\ error' = MissingKeysError(NextBlock)
              ELSE error'.msg # "block missing required keys"]_vars

\* an INTERVALS block that lacks all three of its keys was reported
C11_Witness ==
    /\ FailedAt
    /\ FailedBlock.tag = "INTERVALS"
    /\ error.msg = "block missing required keys"
    /\ error.block_tag = "INTERVALS"
    /\ error.missing = {"REPEAT", "DURATION", "POWER"}

RenderedKinds == {"FREE", "SEGMENT", "RAMP", "WARMUP", "COOLDOWN", "INTERVALS"}

\* C12 (as claimed): no validated block carries a bare-integer power of 0.
C12_NoZeroPowerValidated ==
    Validated =>
        \A i \in 1..Len(validated_blocks) :
            validated_blocks[i].params["POWER"] # Integer(0)

\* C12 (amended): every block after META whose POWER is the bare integer 0
\* fails validation, whatever its kind and whether or not an FTP is resolved,
\* so no validated body block carries a bare-integer power of 0; the power
\* check is what fails a workout block that has its keys and no CADENCE. The
\* META block's own parameters are not passed through the power check.
C12_ZeroPowerRejected ==
    /\ [](Validated =>
             \A i \in 2..Len(validated_blocks) :
                 validated_blocks[i].params["POWER"] # Integer(0))
    /\ [][(AtBlock /\ NextBlock.params["POWER"] = Integer(0))
             => /\ pc' = "done"
                /\ error'.kind = "ZWOMValidationError"
                /\ validated_blocks' = <<>>
                /\ (/\ NextBlock.tag \in RenderedKinds
                    /\ MissingKeys(NextBlock) = {}
                    /\ NextBlock.params["CADENCE"] = None)
                       => error' = ZWOMValidationError("Power must be > 0")]_vars

\* a FREE block with POWER 0 was rejected by the power check under an FTP
C12_Witness ==
    /\ FailedAt
    /\ _ftp = Integer(MaxFtp)
    /\ FailedBlock.tag = "FREE"
    /\ FailedBlock.params["POWER"] = Integer(0)
    /\ error = ZWOMValidationError("Power must be > 0")

CadenceErrors ==
    {"Cadence ranges are only valid for Interval blocks.",
     "Cadence spec for Interval blocks must be a range."}

\* the cadence rule, for a block
BadCadence(block) ==
    \/ block.tag # "INTERVALS" /\ isinstance(block.params["CADENCE"], "range")
    \/ /\ block.tag = "INTERVALS"
       /\ block.params["CADENCE"] # None
       /\ ~isinstance(block.params["CADENCE"], "range")

\* CADENCE comes before POWER in the iteration order of the block's params
CadenceFirst(block) ==
    index(block.params["order"], "CADENCE", 1) < index(block.params["order"], "POWER", 1)

\* C13 (as claimed): no validated block of a kind other than INTERVALS has a
\* Range CADENCE, and no validated INTERVALS block a CADENCE that is no Range.
C13_NoBadCadenceValidated ==
    Validated => \A i \in 1..Len(validated_blocks) : ~BadCadence(validated_blocks[i])

\* C13 (amended): a block after META of any kind other than INTERVALS whose
\* CADENCE is a Range fails validation, and so does an INTERVALS block whose
\* CADENCE is present and no Range; an INTERVALS block with a Range CADENCE, a
\* block of another kind with a scalar CADENCE and a block with no CADENCE
\* never fail the cadence check. The META block's own parameters are not
\* passed through the cadence check.
C13_CadenceRule ==
    /\ [](Validated =>
             \A i \in 2..Len(validated_blocks) : ~BadCadence(validated_blocks[i]))
    /\ [][AtBlock =>
              IF BadCadence(NextBlock)
              THEN /\ pc' = "done"
                   /\ error'.kind = "ZWOMValidationError"
                   /\ validated_blocks' = <<>>
                   /\ (/\ NextBlock.tag \in RenderedKinds
                       /\ MissingKeys(NextBlock) = {}
                       /\ (CadenceFirst(NextBlock) \/ NextBlock.params["POWER"] = None))
                          => error' = ZWOMValidationError(
                                 IF NextBlock.tag = "INTERVALS"
                                 THEN "Cadence spec for Interval blocks must be a range."
                                 ELSE "Cadence ranges are only valid for Interval blocks.")
              ELSE error'.msg \notin CadenceErrors]_vars

\* an INTERVALS block with a scalar CADENCE was rejected by the cadence check
C13_Witness ==
    /\ FailedAt
    /\ FailedBlock.tag = "INTERVALS"
    /\ FailedBlock.params["CADENCE"] = Integer(90)
    /\ error = ZWOMValidationError("Cadence spec for Interval blocks must be a range.")

RampKinds == {"RAMP", "WARMUP", "COOLDOWN"}

\* a document was rendered from the validated blocks
Built == doc # <<>>

\* C14: a RAMP, WARMUP or COOLDOWN block at position i of the n validated
\* blocks after META is rendered as WarmUp if i = 1, else as Cooldown if
\* i = n, else as Ramp, whatever its keyword and its parameters; a single ramp
\* block is a WarmUp.
C14_RampByPosition ==
    Built =>
        \A i \in 2..Len(validated_blocks) :
            validated_blocks[i].tag \in RampKinds =>
                BlockElement(i).name =
                    IF i - 1 = 1 THEN "WarmUp"
                    ELSE IF i - 1 = Len(validated_blocks) - 1 THEN "Cooldown"
                    ELSE "Ramp"

\* three ramp blocks whose keywords and power ranges contradict their places
C14_Witness ==
    /\ Built
    /\ Len(validated_blocks) = 4
    /\ validated_blocks[2].tag = "COOLDOWN"
    /\ validated_blocks[2].params["POWER"] = POWER_RANGE_FALLING
    /\ BlockElement(2).name = "WarmUp"
    /\ validated_blocks[3].tag = "WARMUP"
    /\ BlockElement(3).name = "Ramp"
    /\ validated_blocks[4].tag = "WARMUP"
    /\ validated_blocks[4].params["POWER"] = POWER_RANGE_PCT
    /\ BlockElement(4).name = "Cooldown"

\* the power range of a block falls from left to right
Descends(block) == block.params["POWER"].left.n > block.params["POWER"].right.n

\* C15 (as the test suite states it): a ramp block at position 1 is a WarmUp,
\* at a middle position a Ramp, and at the last position of a body of several
\* blocks a Cooldown when its power range descends but a Ramp when it rises.
C15_LastRampByPower ==
    Built =>
        \A i \in 2..Len(validated_blocks) :
            (validated_blocks[i].tag \in RampKinds /\ Len(validated_blocks) > 2) =>
                BlockElement(i).name =
                    IF i - 1 = 1 THEN "WarmUp"
                    ELSE IF i = Len(validated_blocks) /\ Descends(validated_blocks[i])
                    THEN "Cooldown"
                    ELSE "Ramp"

\* an INTERVALS block with the Range DURATION and the Range POWER of
\* percentages that serialize_interval can render
PlainIntervals(block) ==
    /\ block.tag = "INTERVALS"
    /\ isinstance(block.params["REPEAT"], "int")
    /\ isinstance(block.params["DURATION"], "range")
    /\ isinstance(block.params["POWER"], "range")
    /\ isinstance(block.params["POWER"].left, "pct")
    /\ isinstance(block.params["POWER"].right, "pct")

\* the intervals element the spec describes for a block
IntervalsRendered(block, e) ==
    /\ e.name = "IntervalsT"
    /\ Attr(e, "Repeat") = str(block.params["REPEAT"])
    /\ Attr(e, "OnDuration") = str(block.params["DURATION"].left)
    /\ Attr(e, "OffDuration") = str(block.params["DURATION"].right)
    /\ Attr(e, "OnPower") = str(block.params["POWER"].left)
    /\ Attr(e, "OffPower") = str(block.params["POWER"].right)
    /\ Attr(e, "pace") = Text("lit", 0, 0)
    /\ IF block.params["CADENCE"] = None
       THEN ~HasAttr(e, "Cadence") /\ ~HasAttr(e, "CadenceResting")
       ELSE /\ Attr(e, "Cadence") = str(block.params["CADENCE"].left)
            /\ Attr(e, "CadenceResting") = str(block.params["CADENCE"].right)

\* C16 (as claimed): a validated INTERVALS block is rendered as an intervals
\* element with Repeat, OnDuration/OffDuration, OnPower/OffPower and pace=0,
\* without Cadence and CadenceResting when it has no CADENCE and with them
\* (left, right) when its CADENCE is a Range.
C16_IntervalsCadenceOptional ==
    (/\ pc \in {"write", "done"}
     /\ Validated
     /\ Len(validated_blocks) >= 2
     /\ \A i \in 2..Len(validated_blocks) : PlainIntervals(validated_blocks[i]))
        => /\ error = NoError
           /\ Built
           /\ \A i \in 2..Len(validated_blocks) :
                  IntervalsRendered(validated_blocks[i], BlockElement(i))

\* the half of C16 that holds: with a Range CADENCE
C16_WithCadence ==
    (/\ pc \in {"write", "done"}
     /\ Validated
     /\ Len(validated_blocks) >= 2
     /\ \A i \in 2..Len(validated_blocks) :
            /\ PlainIntervals(validated_blocks[i])
            /\ validated_blocks[i].params["CADENCE"] # None)
        => /\ error = NoError
           /\ Built
           /\ \A i \in 2..Len(validated_blocks) :
                  IntervalsRendered(validated_blocks[i], BlockElement(i))

\* Example 2 of the specification: the document FREE {POWER 165}
Example2 == <<Block("FREE", With(NoParams, "POWER", Integer(165)), <<>>)>>

\* C17 (as claimed): FREE {POWER 165} fails validation with the FTP-required
\* error.
C17_Example2FtpRequired ==
    (raw_blocks = Example2 /\ pc = "done") => error = FtpRequired

\* C17 (amended): FREE {POWER 165}, with no META block, fails validation, and
\* the failure reported is that the document must begin with a META block; no
\* block is visited, so the power check is never reached.
C17_Example2MetaRequired ==
    (raw_blocks = Example2 /\ pc \notin {"parse", "validate"})
        => /\ pc = "done"
           /\ error = ZWOMValidationError("ZWOM file must begin with a META block")
           /\ ~Validated
           /\ scanned = 0
           /\ out_file = OldText

C17_Witness ==
    /\ raw_blocks = Example2
    /\ pc = "done"
    /\ error.kind = "ZWOMValidationError"

\* the element names a block of a kind can be rendered under
ElementNames(tag) ==
    CASE tag = "FREE" -> {"FreeRide"}
      [] tag = "SEGMENT" -> {"SteadyState"}
      [] tag = "INTERVALS" -> {"IntervalsT"}
      [] OTHER -> {"WarmUp", "Ramp", "Cooldown"}

\* C18: the workout container of a rendered document holds exactly one
\* element per validated body block, in validated order (k*n elements for a
\* region of k blocks repeated n times), and the children of a block's element
\* are its messages, in their order, each with its timestamp in seconds and
\* its text.
C18_OrderAndCount ==
    Built =>
        /\ WorkoutElement.name = "workout"
        /\ Len(WorkoutElement.children) = Len(validated_blocks) - 1
        /\ Len(WorkoutElement.children) = Len(Expand(Tail(raw_blocks)))
        /\ \A i \in 2..Len(validated_blocks) :
               /\ BlockElement(i).name \in ElementNames(validated_blocks[i].tag)
               /\ validated_blocks[i].tag # "INTERVALS" =>
                      Attr(BlockElement(i), "Duration")
                          = str(validated_blocks[i].params["DURATION"])
               /\ Len(BlockElement(i).children) = Len(validated_blocks[i].messages)
               /\ \A k \in 1..Len(validated_blocks[i].messages) :
                      /\ BlockElement(i).children[k].name = "textevent"
                      /\ BlockElement(i).children[k].children = <<>>
                      /\ Attr(BlockElement(i).children[k], "timeoffset")
                             = Text("int", validated_blocks[i].messages[k].timestamp.n, 0)
                      /\ Attr(BlockElement(i).children[k], "message")
                             = Text("text", validated_blocks[i].messages[k].message, 0)

\* a rendered region of a block with two messages and a block with none,
\* repeated twice
C18_Witness ==
    /\ Built
    /\ Len(raw_blocks) >= 2
    /\ raw_blocks[2].tag = "START_REPEAT"
    /\ Len(validated_blocks) = 5
    /\ Len(WorkoutElement.children) = 4
    /\ Len(BlockElement(2).children) = 2
    /\ BlockElement(3).children = <<>>
    /\ BlockElement(4) = BlockElement(2)
    /\ Attr(BlockElement(2).children[2], "timeoffset") = Text("int", 90, 0)

\* C19: the destination is written once, after parsing, validation and the
\* rendering of every block have succeeded, and with the whole document; a
\* conversion that fails in any of those stages leaves the destination as it
\* was before the conversion started.
C19_AtomicWrite ==
    /\ [](out_file # OldText =>
             /\ pc = "done"
             /\ error = NoError
             /\ Validated
             /\ Built
             /\ out_file = XmlText(FALSE, doc[1]))
    /\ []((pc = "done" /\ error # NoError) => out_file = OldText)
    /\ [][out_file' # out_file =>
              (pc = "write" /\ out_file = OldText /\ Built /\ error = NoError)]_vars

\* a conversion failed while rendering, after validation had succeeded
C19_Witness ==
    /\ pc = "done"
    /\ Validated
    /\ Len(validated_blocks) >= 2
    /\ error.kind = "ValueError"
    /\ out_file = OldText

\* a block meets the schema of its kind: a workout block with its keys, a
\* power the power check passes and a cadence the cadence rule allows
PowerAllowed(block) ==
    /\ block.params["POWER"] # Integer(0)
    /\ _ftp = None => IntPowerValues(block.params["POWER"]) = {}

MeetsSchema(block) ==
    /\ block.tag \in RenderedKinds
    /\ MissingKeys(block) = {}
    /\ PowerAllowed(block)
    /\ ~BadCadence(block)

\* C20: while a repeat region is open, a block other than END_REPEAT is
\* appended once to the body buffer if it meets the schema of its kind and
\* ends the validation if it does not, and the emitted sequence stays as it
\* is; the START_REPEAT that opens a region emits nothing, the END_REPEAT that
\* closes it emits the copies of the buffer and empties it, and whenever the
\* scan stands between blocks with no region open the buffer is empty.
C20_RegionBuffered ==
    /\ []((pc = "scan" /\ ~_in_repeat) => repeat_blocks = <<>>)
    /\ [][(AtBlock /\ _in_repeat /\ NextBlock.tag # "END_REPEAT")
             => /\ local_validated' = local_validated
                /\ validated_blocks' = <<>>
                /\ IF MeetsSchema(NextBlock)
                   THEN /\ pc' = "scan"
                        /\ _in_repeat'
                        /\ scanned' = scanned + 1
                        /\ repeat_blocks' = Append(repeat_blocks, NextBlock)
                   ELSE /\ pc' = "done"
                        /\ error'.kind = "ZWOMValidationError"
                        /\ repeat_blocks' = repeat_blocks]_vars
    /\ [][(AtBlock /\ ~_in_repeat /\ NextBlock.tag = "START_REPEAT")
             => local_validated' = local_validated /\ repeat_blocks' = <<>>]_vars
    /\ [][(AtBlock /\ _in_repeat /\ NextBlock.tag = "END_REPEAT" /\ pc' = "scan")
             => /\ ~_in_repeat'
                /\ local_validated' = local_validated \o Copies(repeat_blocks, _n_repeats)
                /\ repeat_blocks' = <<>>]_vars

\* two blocks are buffered in a region that follows an emitted block
C20_Witness ==
    /\ pc = "scan"
    /\ _in_repeat
    /\ Len(repeat_blocks) = 2
    /\ Len(local_validated) = 2
    /\ scanned = 4

\* C21: once the validator has returned, the FTP it resolved is there and is
\* not 0 whenever a body block of the validated sequence holds a bare-integer
\* watt value (a scalar POWER or an endpoint of a POWER Range), so
\* serialize_power, given any such value and that FTP, takes neither its
\* 'FTP missing' branch nor divides by zero and returns value/ftp; and no
\* conversion ends with a division by zero.
C21_FtpGuaranteed ==
    /\ Validated =>
           \A i \in 2..Len(validated_blocks) :
               \A v \in IntPowerValues(validated_blocks[i].params["POWER"]) :
                   /\ _ftp # None
                   /\ isinstance(_ftp, "int")
                   /\ _ftp.n > 0
                   /\ serialize_power(v, _ftp) = Result(NoError, Text("quot", v.n, _ftp.n))
    /\ pc = "done" => error.kind # "ZeroDivisionError"

\* a rendered INTERVALS block whose POWER Range starts with a value in watts
C21_Witness ==
    /\ doc # <<>>
    /\ _ftp = Integer(MaxFtp)
    /\ \E i \in 2..Len(validated_blocks) :
           /\ validated_blocks[i].tag = "INTERVALS"
           /\ validated_blocks[i].params["POWER"] = Range(Integer(MaxWatts), Percentage(50))
           /\ Attr(BlockElement(i), "OnPower") = Text("quot", MaxWatts, MaxFtp)

\* the objects of a class that a sequence of items holds in its nested
\* lists, from left to right; an object that is no list is not looked into
RECURSIVE Reachable(_, _)
Reachable(items, kind) ==
    IF items = <<>> THEN <<>>
    ELSE (IF Head(items).kind = "list" THEN Reachable(Head(items).items, kind)
          ELSE IF Head(items).kind = kind THEN <<Head(items)>>
          ELSE <<>>)
         \o Reachable(Tail(items), kind)

IsPrefix(s, t) == Len(s) <= Len(t) /\ SubSeq(t, 1, Len(s)) = s

\* the generator has returned
Exhausted == iterators = <<>>

\* the item the next step of the generator takes
AtItem == iterators # <<>> /\ ~exhausted(top)

\* C22: deep_flatten, run on a finitely nested list for the class dict or
\* Message, returns, and what it has yielded by then is exactly the objects
\* of that class reachable through nested lists, from left to right, each as
\* often as it occurs; all the while the yielded objects are the beginning
\* of that sequence.  A step that meets an object of the class yields it and
\* puts nothing on the stack, a step that meets an object of another class
\* yields nothing, and the pass for dict never yields a Message.
C22_FlattenInOrder ==
    /\ <>Exhausted
    /\ [](Exhausted => yielded = Reachable(in_iter, key_type))
    /\ [](IsPrefix(yielded, Reachable(in_iter, key_type)))
    /\ [](key_type = "dict" => \A i \in 1..Len(yielded) : yielded[i].kind = "dict")
    /\ [][(AtItem /\ item_of(top).kind = key_type)
             => /\ yielded' = Append(yielded, item_of(top))
                /\ Len(iterators') = Len(iterators)]_vars
    /\ [][(AtItem /\ item_of(top).kind \notin {key_type, "list"})
             => yielded' = yielded]_vars

\* the pass for dict has returned from a list that holds a parameter map and
\* a Message in a nested list and then a block result with its own Message
C22_Witness ==
    /\ Exhausted
    /\ key_type = "dict"
    /\ in_iter = <<List(<<PARAM, MESSAGE(2)>>), BLOCK_RESULT>>
    /\ yielded = <<PARAM, BLOCK_RESULT>>

\* the raw blocks after META, and their expansion
RawBody == SubSeq(raw_blocks, 2, Len(raw_blocks))
Expanded == Expand(RawBody)

\* the name _classify_ramp_type gives place k of n
NameAt(k, n) == IF k = 1 THEN "WarmUp" ELSE IF k = n THEN "Cooldown" ELSE "Ramp"

\* C23: in a rendered document the workout element has one child for each
\* block of the expanded body (every repeat region of the source replaced by
\* its copies), and a RAMP, WARMUP or COOLDOWN block at place k of that
\* expansion is named by k and by the length n of the expansion: WarmUp if
\* k = 1, else Cooldown if k = n, else Ramp.  So the copies of one source
\* block are named each by its own place: a region that holds one ramp block
\* and is repeated twice as the whole body renders a WarmUp and then a
\* Cooldown.
C23_RampByExpandedPlace ==
    Built =>
        /\ Len(WorkoutElement.children) = Len(Expanded)
        /\ \A k \in 1..Len(Expanded) :
               Expanded[k].tag \in RampKinds =>
                   WorkoutElement.children[k].name = NameAt(k, Len(Expanded))
        /\ (/\ Len(RawBody) = 3
            /\ RawBody[1] = StartRepeat(2)
            /\ RawBody[2].tag \in RampKinds
            /\ RawBody[3].tag = "END_REPEAT")
               => /\ Len(WorkoutElement.children) = 2
                  /\ WorkoutElement.children[1].name = "WarmUp"
                  /\ WorkoutElement.children[2].name = "Cooldown"

\* a region of one RAMP block, repeated twice, is the whole body: its two
\* copies are rendered under two names
C23_Witness ==
    /\ Built
    /\ Len(raw_blocks) = 4
    /\ raw_blocks[2] = StartRepeat(2)
    /\ raw_blocks[3].tag = "RAMP"
    /\ raw_blocks[4] = EndRepeat
    /\ validated_blocks[2] = validated_blocks[3]
    /\ BlockElement(2).name = "WarmUp"
    /\ BlockElement(3).name = "Cooldown"

====
